---- MODULE Spec2Model ----
(***************************************************************************)
(* go-inspector: collect_and_parse_symbols (src/go_inspector/plugin.py).   *)
(*                                                                         *)
(* A run of collect_and_parse_symbols is modelled statement by statement:  *)
(*   check   line 103-104   the content-type gate                          *)
(*   mktemp  line 106-108   fileutils.get_temp_dir()                       *)
(*   exec    line 111-116   command.execute(GoReSym -p location)           *)
(*   rc      line 118-119   raise on a non-zero return code                *)
(*   parse   line 121-127   json.load, files.sort(), build the mapping     *)
(*   finally line 129-130   fileutils.delete(goresym_temp_dir)             *)
(* Every run is one worker; the host may run several workers at once, all  *)
(* sharing the file system's set of temp directories.                      *)
(***************************************************************************)
EXTENDS Integers, Sequences, FiniteSets, TLC

VARIABLES
    location,    \* worker -> the file the run was given
    check_type,  \* worker -> the check_type argument
    pc,          \* worker -> the statement the run is at
    tmp,         \* worker -> goresym_temp_dir (0 before it is created)
    proc,        \* worker -> what command.execute returned: rc, stdo, err
    pending,     \* worker -> the return value or exception in flight in the try block
    outcome,     \* worker -> what the caller got
    calls,       \* worker -> the external calls the run made, in order
    tempDirs     \* the temp directories that exist on the file system

vars == <<location, check_type, pc, tmp, proc, pending, outcome, calls, tempDirs>>

----------------------------------------------------------------------------
(* Bounds *)

MaxFiles == 3       \* longest "Files" list the extractor emits
NumWorkers == 2     \* concurrent runs of the host specification

----------------------------------------------------------------------------
(* Values *)

SeqsUpTo(S, n) == UNION {[1..k -> S] : k \in 0..n}

\* Path strings, as sequences of code points: "a", "aa", "ab", "b".
PathStrings == {<<1>>, <<1, 1>>, <<1, 2>>, <<2>>}

ErrTexts == {"", "failed to read pclntab"}

\* The keys of a fully populated build info (spec.md section 3 and 6).
BuildInfoFields == {"go_version", "module_path", "module_version", "dependencies"}

PartialFieldSets == {{"go_version"}, {"go_version", "module_path", "module_version"}}

\* A JSON value found under "BuildInfo": the key may be absent, null, or an
\* object holding some set of fields.
JAbsent == [t |-> "absent", fields |-> {}, items |-> <<>>]
JNull == [t |-> "null", fields |-> {}, items |-> <<>>]
JObject(fs) == [t |-> "object", fields |-> fs, items |-> <<>>]
JList(xs) == [t |-> "list", fields |-> {}, items |-> xs]
\* a falsy scalar (false, 0, "")
JFalse == [t |-> "false", fields |-> {}, items |-> <<>>]
\* a non-empty JSON string
JString == [t |-> "string", fields |-> {}, items |-> <<>>]
\* a list holding both strings and numbers
JMixed == [t |-> "mixed", fields |-> {}, items |-> <<>>]

BuildInfoValues ==
    {JAbsent, JNull, JObject({}), JObject(BuildInfoFields)}
        \cup {JObject(fs) : fs \in PartialFieldSets}

FilesValues ==
    {JAbsent, JNull, JFalse, JString, JMixed}
        \cup {JList(xs) : xs \in SeqsUpTo(PathStrings, MaxFiles)}

\* What the stdout file holds: not JSON at all, a JSON array, or a JSON object;
\* or the file cannot be opened.
StdoutUnreadable == [json |-> "nofile", Files |-> JAbsent, BuildInfo |-> JAbsent]
StdoutInvalid == [json |-> "invalid", Files |-> JAbsent, BuildInfo |-> JAbsent]
StdoutArray == [json |-> "array", Files |-> JAbsent, BuildInfo |-> JAbsent]
StdoutObjects == [json : {"object"}, Files : FilesValues, BuildInfo : BuildInfoValues]
Stdouts == {StdoutUnreadable, StdoutInvalid, StdoutArray} \cup StdoutObjects

----------------------------------------------------------------------------
(* The file at ``location`` *)

\* What typecode reports for a regular file: Type.is_elf, Type.is_winexe, and
\* whether filetype_file / mimetype_file start with the Mach-O prefixes.
Detections ==
    {[is_elf |-> TRUE,  is_winexe |-> FALSE, ft_macho |-> FALSE, mime_macho |-> FALSE],
     [is_elf |-> FALSE, is_winexe |-> TRUE,  ft_macho |-> FALSE, mime_macho |-> FALSE],
     [is_elf |-> FALSE, is_winexe |-> FALSE, ft_macho |-> TRUE,  mime_macho |-> FALSE],
     [is_elf |-> FALSE, is_winexe |-> FALSE, ft_macho |-> FALSE, mime_macho |-> TRUE],
     [is_elf |-> FALSE, is_winexe |-> FALSE, ft_macho |-> FALSE, mime_macho |-> FALSE]}

NoDetection ==
    [is_elf |-> FALSE, is_winexe |-> FALSE, ft_macho |-> FALSE, mime_macho |-> FALSE]

\* What the bytes really are: a Go-built ELF/PE/Mach-O executable, another
\* ELF/PE/Mach-O executable, or no such container at all.  typecode's answer is
\* advisory, so it is independent of the content.
Contents == {"go", "nongo", "other"}

Missing == [exists |-> FALSE, isfile |-> FALSE, typ |-> NoDetection, content |-> "other"]
Directory == [exists |-> TRUE, isfile |-> FALSE, typ |-> NoDetection, content |-> "other"]
RegularFiles == [exists : {TRUE}, isfile : {TRUE}, typ : Detections, content : Contents]
Locations == {Missing, Directory} \cup RegularFiles

IsContainer(loc) == loc.exists /\ loc.isfile /\ loc.content \in {"go", "nongo"}

is_macho(loc) == loc.typ.ft_macho \/ loc.typ.mime_macho

\* Mutant: the content type is not looked at.
is_executable_binary_AnyFile(loc) ==
    IF ~loc.exists THEN FALSE
    ELSE IF ~loc.isfile THEN FALSE
    ELSE TRUE

is_executable_binary(loc) ==
    IF ~loc.exists THEN FALSE
    ELSE IF ~loc.isfile THEN FALSE
    ELSE IF ~(loc.typ.is_elf \/ loc.typ.is_winexe \/ is_macho(loc)) THEN FALSE
    ELSE TRUE

----------------------------------------------------------------------------
(* The extractor, bin/GoReSym_lin, as command.execute sees it *)

NoProc == [kind |-> "none", rc |-> 0, stdo |-> StdoutInvalid, err |-> ""]
Exit(rc, stdo, err) == [kind |-> "exit", rc |-> rc, stdo |-> stdo, err |-> err]

\* command.execute itself fails (the binary cannot be started).
ExecFailure == [kind |-> "oserror", rc |-> 0, stdo |-> StdoutInvalid, err |-> ""]

\* A non-zero exit: any stdout may have been written before it, stderr holds text.
FailedExits == {Exit(1, so, e) : so \in Stdouts, e \in ErrTexts}

\* A zero exit: stderr is not read by the caller, stdout holds anything.
CleanExits == {Exit(0, so, "") : so \in Stdouts}

\* A Go binary is analysed (tests, test_goresym_with_mini_go_app_linux); a
\* fatal error in its runtime data still ends in a non-zero exit.
GoReSymOnGoBinary == CleanExits \cup FailedExits

\* A non-Go executable makes the extractor exit non-zero
\* (tests, test_goresym_with_windows_exe and test_goresym_with_elf).
GoReSymOnNonGoBinary == FailedExits

\* Anything that is no ELF/PE/Mach-O container, or cannot be opened, is
\* rejected (spec.md section 6 and 7: UnsupportedFormat is fatal).
GoReSymOnNonContainer == FailedExits

GoReSym(loc) ==
    {ExecFailure} \cup
        (IF ~IsContainer(loc) THEN GoReSymOnNonContainer
         ELSE IF loc.content = "go" THEN GoReSymOnGoBinary
         ELSE GoReSymOnNonGoBinary)

----------------------------------------------------------------------------
(* What a call gives its caller *)

NoValue == [build_info |-> JAbsent, file_paths |-> JAbsent]

Running == [kind |-> "running", exc |-> "", msg |-> "", go_symbols |-> NoValue]
\* ``return`` with no value (line 104)
ReturnNone == [kind |-> "none", exc |-> "", msg |-> "", go_symbols |-> NoValue]
\* ``return dict(go_symbols=...)`` (line 127)
Return(gs) == [kind |-> "return", exc |-> "", msg |-> "", go_symbols |-> gs]
Raise(exc, msg) == [kind |-> "raise", exc |-> exc, msg |-> msg, go_symbols |-> NoValue]

----------------------------------------------------------------------------
(* Lines 121-127: reading the stdout file *)

\* Mutant: only the first code point is compared.
StrLessFirstChar(a, b) ==
    IF b = <<>> THEN FALSE
    ELSE IF a = <<>> THEN TRUE
    ELSE Head(a) < Head(b)

\* Python's str.__lt__: code point by code point, a proper prefix is smaller.
RECURSIVE StrLess(_, _)
StrLess(a, b) ==
    IF b = <<>> THEN FALSE
    ELSE IF a = <<>> THEN TRUE
    ELSE IF Head(a) # Head(b) THEN Head(a) < Head(b)
    ELSE StrLess(Tail(a), Tail(b))

\* Mutant: a string already in the list is not put in again.
RECURSIVE InsertUnique(_, _)
InsertUnique(x, s) ==
    IF s = <<>> THEN <<x>>
    ELSE IF x = Head(s) THEN s
    ELSE IF StrLess(x, Head(s)) THEN <<x>> \o s
    ELSE <<Head(s)>> \o InsertUnique(x, Tail(s))

\* Put x into the sorted list s, after the elements that are not greater.
RECURSIVE Insert(_, _)
Insert(x, s) ==
    IF s = <<>> THEN <<x>>
    ELSE IF StrLess(x, Head(s)) THEN <<x>> \o s
    ELSE <<Head(s)>> \o Insert(x, Tail(s))

\* list.sort() on a list of str: ascending, stable.
RECURSIVE ListSort(_)
ListSort(s) ==
    IF s = <<>> THEN <<>>
    ELSE Insert(s[Len(s)], ListSort(SubSeq(s, 1, Len(s) - 1)))

\* Python truthiness of a JSON value as loaded by json.load; an absent key
\* reads as None through dict.get.
Truthy(v) ==
    CASE v.t = "absent" -> FALSE
      [] v.t = "null" -> FALSE
      [] v.t = "false" -> FALSE
      [] v.t = "object" -> v.fields # {}
      [] v.t = "list" -> v.items # <<>>
      [] OTHER -> TRUE

\* symbols.get("Files") or []
FilesOrEmpty(symbols) == IF Truthy(symbols.Files) THEN symbols.Files ELSE JList(<<>>)

\* Mutant: without the ``or {}``.
BuildInfoAsLoaded(symbols) == symbols.BuildInfo

\* Mutant: an object lacking one of the fields is dropped.
BuildInfoIfComplete(symbols) ==
    IF symbols.BuildInfo.t = "object" /\ symbols.BuildInfo.fields = BuildInfoFields
    THEN symbols.BuildInfo
    ELSE JObject({})

\* symbols.get("BuildInfo") or {}
BuildInfoOrEmpty(symbols) ==
    IF Truthy(symbols.BuildInfo) THEN symbols.BuildInfo ELSE JObject({})

\* dict(build_info=build_info, file_paths=files)
GoSymbols(build_info, files) == [build_info |-> build_info, file_paths |-> files]

\* The body of the ``with open(stdo)`` block: what it returns or raises.
ParseSymbols(stdo) ==
    IF stdo.json = "nofile" THEN Raise("OSError", "open")
    ELSE IF stdo.json = "invalid" THEN Raise("JSONDecodeError", "")
    ELSE IF stdo.json # "object" THEN Raise("AttributeError", "get")
    ELSE LET files == FilesOrEmpty(stdo)
         IN  IF files.t = "mixed" THEN Raise("TypeError", "sort")
             ELSE IF files.t # "list" THEN Raise("AttributeError", "sort")
             ELSE Return(GoSymbols(BuildInfoOrEmpty(stdo), JList(ListSort(files.items))))

\* The calls the block makes before it returns or raises.
ParseCalls(stdo) ==
    IF stdo.json = "object"
    THEN IF FilesOrEmpty(stdo).t \in {"list", "mixed"}
         THEN <<"open_stdo", "json_load", "sort">>
         ELSE <<"open_stdo", "json_load">>
    ELSE IF stdo.json = "nofile" THEN <<"open_stdo">>
    ELSE <<"open_stdo", "json_load">>

----------------------------------------------------------------------------
(* collect_and_parse_symbols, statement by statement *)

Workers == DOMAIN pc

\* The name get_temp_dir hands out: one no earlier call was given.
NewTempDir == Cardinality({v \in Workers : tmp[v] # 0}) + 1

\* Mutant: the gate is never consulted.
CheckTypeSkipped(w) ==
    /\ pc[w] = "check"
    /\ pc' = [pc EXCEPT ![w] = "mktemp"]
    /\ UNCHANGED <<location, check_type, tmp, proc, pending, outcome, calls, tempDirs>>

\* Line 103-104: the gate; is_executable_binary is called only when
\* check_type is set.
CheckType(w) ==
    /\ pc[w] = "check"
    /\ IF check_type[w]
       THEN /\ calls' = [calls EXCEPT ![w] = Append(@, "is_executable_binary")]
            /\ IF ~is_executable_binary(location[w])
               THEN /\ outcome' = [outcome EXCEPT ![w] = ReturnNone]
                    /\ pc' = [pc EXCEPT ![w] = "done"]
               ELSE /\ pc' = [pc EXCEPT ![w] = "mktemp"]
                    /\ UNCHANGED outcome
       ELSE /\ pc' = [pc EXCEPT ![w] = "mktemp"]
            /\ UNCHANGED <<outcome, calls>>
    /\ UNCHANGED <<location, check_type, tmp, proc, pending, tempDirs>>

\* Line 106-108: fileutils.get_temp_dir() creates a directory of a new name.
GetTempDir(w) ==
    /\ pc[w] = "mktemp"
    /\ tmp' = [tmp EXCEPT ![w] = NewTempDir]
    /\ tempDirs' = tempDirs \cup {NewTempDir}
    /\ calls' = [calls EXCEPT ![w] = Append(@, "get_temp_dir")]
    /\ pc' = [pc EXCEPT ![w] = "exec"]
    /\ UNCHANGED <<location, check_type, proc, pending, outcome>>

\* Line 111-116: command.execute runs the extractor on the location; R is the
\* set of answers considered.
Execute(w, R) ==
    /\ pc[w] = "exec"
    /\ \E r \in GoReSym(location[w]) \cap R :
        /\ proc' = [proc EXCEPT ![w] = r]
        /\ IF r.kind = "oserror"
           THEN /\ pending' = [pending EXCEPT ![w] = Raise("OSError", "")]
                /\ pc' = [pc EXCEPT ![w] = "finally"]
           ELSE /\ pc' = [pc EXCEPT ![w] = "rc"]
                /\ UNCHANGED pending
    /\ calls' = [calls EXCEPT ![w] = Append(@, "execute")]
    /\ UNCHANGED <<location, check_type, tmp, outcome, tempDirs>>

\* Mutant: the return code is not looked at.
CheckRcNoRaise(w) ==
    /\ pc[w] = "rc"
    /\ pc' = [pc EXCEPT ![w] = "parse"]
    /\ UNCHANGED <<location, check_type, tmp, proc, pending, outcome, calls, tempDirs>>

\* Mutant: the exception is raised without the text of the stderr file.
CheckRcDropsStderr(w) ==
    /\ pc[w] = "rc"
    /\ IF proc[w].rc # 0
       THEN /\ pending' = [pending EXCEPT ![w] = Raise("Exception", "")]
            /\ pc' = [pc EXCEPT ![w] = "finally"]
       ELSE /\ pc' = [pc EXCEPT ![w] = "parse"]
            /\ UNCHANGED pending
    /\ UNCHANGED <<location, check_type, tmp, proc, outcome, calls, tempDirs>>

\* Line 118-119: a non-zero return code raises with the text of the stderr file.
CheckRc(w) ==
    /\ pc[w] = "rc"
    /\ IF proc[w].rc # 0
       THEN /\ pending' = [pending EXCEPT ![w] = Raise("Exception", proc[w].err)]
            /\ calls' = [calls EXCEPT ![w] = Append(@, "read_err")]
            /\ pc' = [pc EXCEPT ![w] = "finally"]
       ELSE /\ pc' = [pc EXCEPT ![w] = "parse"]
            /\ UNCHANGED <<pending, calls>>
    /\ UNCHANGED <<location, check_type, tmp, proc, outcome, tempDirs>>

\* Line 121-127: load the stdout file, sort the files, build the mapping.
Parse(w) ==
    /\ pc[w] = "parse"
    /\ pending' = [pending EXCEPT ![w] = ParseSymbols(proc[w].stdo)]
    /\ calls' = [calls EXCEPT ![w] = @ \o ParseCalls(proc[w].stdo)]
    /\ pc' = [pc EXCEPT ![w] = "finally"]
    /\ UNCHANGED <<location, check_type, tmp, proc, outcome, tempDirs>>

\* Mutant: the directory is deleted on the way to a return only.
FinallyOnReturnOnly(w) ==
    /\ pc[w] = "finally"
    /\ IF pending[w].kind = "return"
       THEN /\ tempDirs' = tempDirs \ {tmp[w]}
            /\ calls' = [calls EXCEPT ![w] = Append(@, "delete")]
       ELSE UNCHANGED <<tempDirs, calls>>
    /\ outcome' = [outcome EXCEPT ![w] = pending[w]]
    /\ pc' = [pc EXCEPT ![w] = "done"]
    /\ UNCHANGED <<location, check_type, tmp, proc, pending>>

\* Line 129-130: the finally clause deletes the temp directory, then the
\* return value or the exception reaches the caller.
Finally(w) ==
    /\ pc[w] = "finally"
    /\ tempDirs' = tempDirs \ {tmp[w]}
    /\ calls' = [calls EXCEPT ![w] = Append(@, "delete")]
    /\ outcome' = [outcome EXCEPT ![w] = pending[w]]
    /\ pc' = [pc EXCEPT ![w] = "done"]
    /\ UNCHANGED <<location, check_type, tmp, proc, pending>>

----------------------------------------------------------------------------
(* One run: every file, every answer of the extractor *)

AllAnswers == {ExecFailure} \cup CleanExits \cup FailedExits

InitOn(W, Locs, Checks) ==
    /\ location \in [W -> Locs]
    /\ check_type \in [W -> Checks]
    /\ pc = [w \in W |-> "check"]
    /\ tmp = [w \in W |-> 0]
    /\ proc = [w \in W |-> NoProc]
    /\ pending = [w \in W |-> Running]
    /\ outcome = [w \in W |-> Running]
    /\ calls = [w \in W |-> <<>>]
    /\ tempDirs = {}

Init == InitOn({1}, Locations, BOOLEAN)

Next ==
    \E w \in Workers :
        \/ CheckType(w)
        \/ GetTempDir(w)
        \/ Execute(w, AllAnswers)
        \/ CheckRc(w)
        \/ Parse(w)
        \/ Finally(w)

Spec == Init /\ [][Next]_vars

----------------------------------------------------------------------------
(* The host: NumWorkers runs at once, sharing the temp directories *)

HostLocations ==
    {Missing,
     [exists |-> TRUE, isfile |-> TRUE, content |-> "go",
      typ |-> [is_elf |-> TRUE, is_winexe |-> FALSE, ft_macho |-> FALSE, mime_macho |-> FALSE]]}

HostStdouts ==
    {StdoutUnreadable, StdoutInvalid,
     [json |-> "object", Files |-> JMixed, BuildInfo |-> JAbsent],
     [json |-> "object", Files |-> JList(<<<<2>>, <<1>>>>), BuildInfo |-> JObject(BuildInfoFields)]}

HostAnswers ==
    {ExecFailure}
        \cup {Exit(0, so, "") : so \in HostStdouts}
        \cup {Exit(1, StdoutInvalid, "failed to read pclntab")}

\* The scan plugin calls the scanner with its default, check_type=True.
InitHost == InitOn(1..NumWorkers, HostLocations, {TRUE})

NextHost ==
    \E w \in Workers :
        \/ CheckType(w)
        \/ GetTempDir(w)
        \/ Execute(w, HostAnswers)
        \/ CheckRc(w)
        \/ Parse(w)
        \/ Finally(w)

SpecHost == InitHost /\ [][NextHost]_vars

----------------------------------------------------------------------------
(* Vocabulary of the properties *)

Done(w) == pc[w] = "done"

\* The extractor was started and exited with a return code.
Exited(w) == proc[w].kind = "exit"

Returned(w) == Done(w) /\ outcome[w].kind = "return"

Raised(w) == Done(w) /\ outcome[w].kind = "raise"

\* typecode names the file an ELF, a Windows executable or a Mach-O.
Detected(loc) ==
    loc.typ.is_elf \/ loc.typ.is_winexe \/ loc.typ.ft_macho \/ loc.typ.mime_macho

\* The gate lets the location through.
GatePasses(loc) == loc.exists /\ loc.isfile /\ Detected(loc)

EmptyResult == [build_info |-> JObject({}), file_paths |-> JList(<<>>)]

\* The strings of the "Files" list the extractor wrote.
Emitted(w) ==
    IF proc[w].stdo.Files.t = "list" THEN proc[w].stdo.Files.items ELSE <<>>

FilePaths(w) == outcome[w].go_symbols.file_paths.items

\* a <= b in lexicographic order of code points
LexLeq(a, b) ==
    \/ /\ Len(a) <= Len(b)
       /\ \A i \in 1..Len(a) : a[i] = b[i]
    \/ \E i \in 1..Len(a) :
        /\ i <= Len(b)
        /\ a[i] < b[i]
        /\ \A j \in 1..(i - 1) : a[j] = b[j]

Ascending(xs) == \A i \in 1..(Len(xs) - 1) : LexLeq(xs[i], xs[i + 1])

Occurrences(x, xs) == Cardinality({i \in 1..Len(xs) : xs[i] = x})

NoDuplicates(xs) == \A i, j \in 1..Len(xs) : xs[i] = xs[j] => i = j

Made(w, c) == \E i \in 1..Len(calls[w]) : calls[w][i] = c

----------------------------------------------------------------------------
(* C1 *)

\* C1, as stated: a run on an ELF/PE/Mach-O executable that is not a Go binary,
\* on which the extractor ran to its exit, ends by returning the empty result
\* build_info = {} and file_paths = [].
C1_AsStated ==
    \A w \in Workers :
        Done(w) /\ location[w].content = "nongo" /\ Exited(w)
            => outcome[w] = Return(EmptyResult)

\* C1, amended: on an ELF/PE/Mach-O executable that is not a Go binary the
\* extractor exits non-zero, and the run raises Exception with the text of the
\* stderr file; it never returns a go_symbols mapping.
C1_NonGoRaises ==
    \A w \in Workers :
        location[w].content = "nongo" =>
            /\ Exited(w) => proc[w].rc # 0
            /\ Done(w) /\ Exited(w) => outcome[w] = Raise("Exception", proc[w].err)
            /\ ~Returned(w)

C1_Witness ==
    \E w \in Workers :
        /\ location[w].content = "nongo"
        /\ GatePasses(location[w])
        /\ proc[w].stdo.json = "object"
        /\ Raised(w)
        /\ outcome[w].exc = "Exception"

----------------------------------------------------------------------------
(* C2 *)

\* C2: when the extractor exits with a non-zero return code the run raises
\* Exception carrying the text of the stderr file, returns no result, and
\* neither opens nor parses the stdout file.
C2_NonZeroRcRaises ==
    \A w \in Workers :
        Exited(w) /\ proc[w].rc # 0 =>
            /\ ~Made(w, "open_stdo") /\ ~Made(w, "json_load") /\ ~Made(w, "sort")
            /\ pending[w].kind # "return"
            /\ pc[w] \in {"rc", "finally", "done"}
            /\ pc[w] \in {"finally", "done"} => pending[w] = Raise("Exception", proc[w].err)
            /\ Done(w) => outcome[w] = Raise("Exception", proc[w].err)

C2_Witness ==
    \E w \in Workers :
        /\ Exited(w) /\ proc[w].rc # 0
        /\ proc[w].stdo.json = "object"
        /\ proc[w].stdo.Files.t = "list"
        /\ proc[w].err # ""
        /\ Raised(w)

----------------------------------------------------------------------------
(* C3 *)

\* C3: with check_type set, a location that does not exist, is no regular file
\* or is not detected as ELF, Windows executable or Mach-O makes the run return
\* None, with no temp directory created and the extractor never executed; with
\* check_type unset the gate is not consulted and the extractor is executed.
C3_Gate ==
    \A w \in Workers :
        /\ check_type[w] /\ ~GatePasses(location[w]) =>
            /\ tmp[w] = 0
            /\ ~Made(w, "get_temp_dir") /\ ~Made(w, "execute")
            /\ pc[w] \in {"check", "done"}
            /\ Done(w) => outcome[w] = ReturnNone
        /\ ~check_type[w] =>
            /\ ~Made(w, "is_executable_binary")
            /\ Done(w) => Made(w, "execute") /\ outcome[w] # ReturnNone

C3_Witness ==
    \E w \in Workers :
        /\ check_type[w]
        /\ location[w].exists /\ location[w].isfile /\ ~Detected(location[w])
        /\ Done(w)
        /\ outcome[w] = ReturnNone
        /\ calls[w] = <<"is_executable_binary">>

----------------------------------------------------------------------------
(* C4 *)

\* C4, as stated: an input that is no ELF, PE or Mach-O container always ends
\* in a failure, whatever the gate decided; it never returns normally.
C4_AsStated ==
    \A w \in Workers :
        Done(w) /\ ~IsContainer(location[w]) => outcome[w].kind = "raise"

\* C4, amended: an input that is no ELF, PE or Mach-O container never yields a
\* go_symbols mapping.  When check_type is set and the gate does not pass, the
\* run returns None normally and the extractor is not executed; when the gate
\* passes or is skipped, the extractor is executed, and when it exits it
\* exits non-zero and the run raises before the stdout file is opened.
C4_NonContainer ==
    \A w \in Workers :
        Done(w) /\ ~IsContainer(location[w]) =>
            IF check_type[w] /\ ~GatePasses(location[w])
            THEN outcome[w] = ReturnNone /\ ~Made(w, "execute")
            ELSE /\ Made(w, "execute")
                 /\ outcome[w].kind = "raise"
                 /\ ~Made(w, "open_stdo")
                 /\ Exited(w) => proc[w].rc # 0 /\ outcome[w].exc = "Exception"

C4_Witness ==
    \E w \in Workers :
        /\ ~IsContainer(location[w])
        /\ location[w].isfile /\ ~Detected(location[w])
        /\ ~check_type[w]
        /\ Exited(w)
        /\ proc[w].stdo.json = "object"
        /\ Raised(w)

----------------------------------------------------------------------------
(* C5 *)

\* C5: in every returned result file_paths is in ascending lexicographic order,
\* whatever order the extractor wrote its "Files" list in, and holds exactly
\* the strings the extractor wrote.
C5_SortedFilePaths ==
    \A w \in Workers :
        Returned(w) =>
            /\ outcome[w].go_symbols.file_paths.t = "list"
            /\ Ascending(FilePaths(w))
            /\ \A p \in PathStrings :
                Occurrences(p, FilePaths(w)) = Occurrences(p, Emitted(w))

C5_Witness ==
    \E w \in Workers :
        /\ Returned(w)
        /\ Len(Emitted(w)) = MaxFiles
        /\ ~Ascending(Emitted(w))
        /\ \E i \in 1..(Len(Emitted(w)) - 1) :
            /\ Len(Emitted(w)[i]) > Len(Emitted(w)[i + 1])
            /\ LexLeq(Emitted(w)[i], Emitted(w)[i + 1])
        /\ FilePaths(w) # Emitted(w)

----------------------------------------------------------------------------
(* C6 *)

\* C6, as stated: file_paths of a returned result holds no path twice, also
\* when the extractor's "Files" list holds a path more than once.
C6_AsStated ==
    \A w \in Workers : Returned(w) => NoDuplicates(FilePaths(w))

\* C6, amended: file_paths of a returned result is as long as the extractor's
\* "Files" list; a path the extractor wrote more than once is kept every time,
\* its copies next to each other, so file_paths is free of duplicates exactly
\* when the extractor's list is.
C6_DuplicatesKept ==
    \A w \in Workers :
        Returned(w) =>
            /\ Len(FilePaths(w)) = Len(Emitted(w))
            /\ NoDuplicates(FilePaths(w)) <=> NoDuplicates(Emitted(w))
            /\ \A i, j \in 1..Len(FilePaths(w)) :
                i < j /\ FilePaths(w)[i] = FilePaths(w)[j]
                    => FilePaths(w)[i + 1] = FilePaths(w)[i]

C6_Witness ==
    \E w \in Workers :
        /\ Returned(w)
        /\ Len(Emitted(w)) > 2
        /\ Emitted(w)[1] = Emitted(w)[Len(Emitted(w))]
        /\ Emitted(w)[2] # Emitted(w)[1]
        /\ ~NoDuplicates(FilePaths(w))

----------------------------------------------------------------------------
(* C7 *)

\* C7: when the extractor exits 0 with a JSON object, a "BuildInfo" key that is
\* missing, null or empty gives build_info = {}, a "Files" key that is missing
\* or null gives file_paths = [] (the run then returns when BuildInfo is of any
\* kind), neither is ever null or left out, and go_symbols has exactly the keys
\* build_info and file_paths.
C7_EmptyDefaults ==
    \A w \in Workers :
        /\ Returned(w) =>
            /\ DOMAIN outcome[w].go_symbols = {"build_info", "file_paths"}
            /\ outcome[w].go_symbols.build_info.t = "object"
            /\ outcome[w].go_symbols.file_paths.t = "list"
            /\ proc[w].stdo.BuildInfo \in {JAbsent, JNull, JObject({})}
                => outcome[w].go_symbols.build_info = JObject({})
        /\ Done(w) /\ Exited(w) /\ proc[w].rc = 0 /\ proc[w].stdo.json = "object"
              /\ proc[w].stdo.Files \in {JAbsent, JNull}
            => Returned(w) /\ outcome[w].go_symbols.file_paths = JList(<<>>)

C7_Witness ==
    \E w \in Workers :
        /\ Returned(w)
        /\ proc[w].stdo.BuildInfo = JNull
        /\ proc[w].stdo.Files = JAbsent
        /\ outcome[w].go_symbols = EmptyResult

----------------------------------------------------------------------------
(* C8 *)

\* C8, as stated: build_info of a returned result is either empty or holds all
\* of go_version, module_path, module_version and dependencies.
C8_AsStated ==
    \A w \in Workers :
        Returned(w) =>
            outcome[w].go_symbols.build_info.fields \in {{}, BuildInfoFields}

\* C8, amended: build_info of a returned result is the extractor's "BuildInfo"
\* object as written whenever that object is not empty, also when it holds only
\* some of the fields; otherwise it is the empty mapping.
C8_BuildInfoAsWritten ==
    \A w \in Workers :
        Returned(w) =>
            outcome[w].go_symbols.build_info =
                IF proc[w].stdo.BuildInfo.t = "object" /\ proc[w].stdo.BuildInfo.fields # {}
                THEN proc[w].stdo.BuildInfo
                ELSE JObject({})

C8_Witness ==
    \E w \in Workers :
        /\ Returned(w)
        /\ proc[w].stdo.BuildInfo.fields = {"go_version"}
        /\ outcome[w].go_symbols.build_info.fields = {"go_version"}

----------------------------------------------------------------------------
(* C10 *)

\* The run holds a temp directory it has created and not yet deleted.
HoldsTempDir(w) == pc[w] \in {"exec", "rc", "parse", "finally"}

\* C10: the temp directory a run created is deleted on every way out of the
\* call; the deletion is the run's last step, made once the return value or
\* the exception is known; and the directories that exist are exactly those of
\* the runs still under way, so no run deletes a directory of another run.
C10_TempDirDeleted ==
    /\ tempDirs = {tmp[w] : w \in {v \in Workers : HoldsTempDir(v)}}
    /\ \A w, v \in Workers : w # v /\ tmp[w] # 0 => tmp[w] # tmp[v]
    /\ \A w \in Workers :
        /\ HoldsTempDir(w) => tmp[w] # 0
        /\ pc[w] \in {"exec", "rc", "parse"} => ~Made(w, "delete")
        /\ pc[w] = "finally" => ~Made(w, "delete") /\ pending[w].kind \in {"return", "raise"}
        /\ Done(w) /\ tmp[w] # 0 =>
            /\ tmp[w] \notin tempDirs
            /\ calls[w][Len(calls[w])] = "delete"
            /\ Occurrences("delete", calls[w]) = 1
            /\ outcome[w].kind \in {"return", "raise"}

C10_Witness ==
    \E w, v \in Workers :
        /\ Done(w) /\ tmp[w] # 0
        /\ outcome[w] = Raise("TypeError", "sort")
        /\ pc[v] = "parse"
        /\ tmp[v] \in tempDirs
        /\ tmp[w] < tmp[v]

====
